---- MODULE Spec2Model ----
(***************************************************************************)
(* pyddq: the Python binding of the drunken-data-quality constraint        *)
(* engine.  The binding (python/pyddq/core.py) is modelled from its        *)
(* source; the engine it forwards to (de.frosner.ddq.core.Check and its    *)
(* constraints, reporters and the jvm_conversions helpers) is modelled     *)
(* from the specification and marked so in the comments.                   *)
(***************************************************************************)
EXTENDS Integers, Sequences, FiniteSets, TLC

VARIABLES heap, fresh, last

vars == <<heap, fresh, last>>

(***************************************************************************)
(* Bounds of the model.                                                    *)
(***************************************************************************)
MaxChecks == 2
MaxConstraints == 2
MaxReporters == 2
MaxRows == 3

(***************************************************************************)
(* Values.  A nullable value (Python None, scala.Option, SQL NULL) is an   *)
(* option: <<>> when absent, <<v>> when present.                           *)
(***************************************************************************)
None == <<>>
Some(v) == <<v>>
IsNone(o) == o = <<>>
Get(o) == o[1]

Range(s) == {s[i] : i \in DOMAIN s}

\* Python call outcomes: a returned value or a raised exception.
Ret(v) == [outcome |-> "returned", value |-> v]
Raise(e) == [outcome |-> "raised", exc |-> e]
Returned(r) == r.outcome = "returned"

(***************************************************************************)
(* Data sources.  A JVM data frame has a schema (ordered column names and  *)
(* types) and rows; every cell is an option of a rendered value.           *)
(***************************************************************************)
Row(a, b) == ("_1" :> a) @@ ("_2" :> b)

JdfTest ==
    [schema |-> << <<"_1", "bigint">>, <<"_2", "string">> >>,
     rows |-> << Row(Some("1"), Some("a")), Row(Some("1"), None),
                 Row(Some("3"), Some("c")) >>]

JdfRef ==
    [schema |-> << <<"_1", "bigint">>, <<"_2", "string">> >>,
     rows |-> << Row(Some("1"), Some("a")), Row(Some("3"), Some("b")) >>]

\* A Python DataFrame wraps its JVM data frame (dataFrame._jdf).
PyDataFrame(jdf) == ("_jdf" :> jdf)

\* The data frames Checks are constructed on, and those used as reference
\* tables.
CheckedFrames == {PyDataFrame(JdfTest)}
DataFrames == {PyDataFrame(JdfTest), PyDataFrame(JdfRef)}

ColumnsOf(jdf) == {jdf.schema[i][1] : i \in DOMAIN jdf.schema}

TypeOf(jdf, col) ==
    LET i == CHOOSE j \in DOMAIN jdf.schema : jdf.schema[j][1] = col
    IN jdf.schema[i][2]

\* DataSource.toDisplayString: "[col1: type1, col2: type2]".
RECURSIVE SchemaFields(_)
SchemaFields(schema) ==
    IF schema = <<>> THEN ""
    ELSE LET f == schema[1][1] \o ": " \o schema[1][2]
         IN IF Len(schema) = 1 THEN f
            ELSE f \o ", " \o SchemaFields(Tail(schema))

JdfToString(jdf) == "[" \o SchemaFields(jdf.schema) \o "]"

\* str(dataFrame) on the Python side.
PyStr(df) == "DataFrame" \o JdfToString(df["_jdf"])

(***************************************************************************)
(* Engine: constraints (modelled from the specification, section 3/4.1).   *)
(***************************************************************************)
UniqueKey(cols) == [kind |-> "UniqueKey", columns |-> cols]
NeverNull(col) == [kind |-> "NeverNull", column |-> col]
AlwaysNull(col) == [kind |-> "AlwaysNull", column |-> col]
ConvertibleTo(col, t) == [kind |-> "ConvertibleTo", column |-> col, targetType |-> t]
FormattedAsDate(col, f) == [kind |-> "FormattedAsDate", column |-> col, format |-> f]
AnyOf(col, allowed) == [kind |-> "AnyOf", column |-> col, allowed |-> allowed]
MatchingRegex(col, re) == [kind |-> "MatchingRegex", column |-> col, regex |-> re]
FunctionalDependency(det, dep) ==
    [kind |-> "FunctionalDependency", determinantSet |-> det, dependentSet |-> dep]
ForeignKey(ref, pairs) == [kind |-> "ForeignKey", ref |-> ref, columnPairs |-> pairs]
Joinable(ref, pairs) == [kind |-> "Joinable", ref |-> ref, columnPairs |-> pairs]
Satisfies(expr) == [kind |-> "Satisfies", expr |-> expr]

\* Patterns the pattern compilers reject.
MalformedRegexes == {"("}
MalformedDateFormats == {"yyyy-bb"}

\* Strings a regex matches, on the rendered values of the model.
RegexMatches(re) ==
    IF re = "^a" THEN {"a"}
    ELSE IF re = "[0-9]" THEN {"0", "1", "2", "3"}
    ELSE {}

\* Strings a date format parses.
DateParses(fmt) == IF fmt = "yyyy" THEN {"0", "1", "2", "3"} ELSE {}

\* The number a rendered value denotes.
IntOf(v) ==
    IF v = "0" THEN 0 ELSE IF v = "1" THEN 1 ELSE IF v = "2" THEN 2 ELSE 3

\* Predicate expressions: parsed into (column, operator, literal), or none
\* when the text is not a well-formed predicate.
ParseExpr(expr) ==
    IF expr = "_1 > 0" THEN Some([column |-> "_1", op |-> ">", lit |-> "0"])
    ELSE IF expr = "_1 > 1" THEN Some([column |-> "_1", op |-> ">", lit |-> "1"])
    ELSE IF expr = "_2 = 'a'" THEN Some([column |-> "_2", op |-> "=", lit |-> "a"])
    ELSE IF expr = "_9 > 0" THEN Some([column |-> "_9", op |-> ">", lit |-> "0"])
    ELSE None

ExprHolds(p, cell) ==
    /\ ~IsNone(cell)
    /\ IF p.op = ">" THEN IntOf(Get(cell)) > IntOf(p.lit) ELSE Get(cell) = p.lit

\* Structurally valid casts from a declared column type.
Castable(from, to) == to \in {"IntegerType", "StringType"}

Project(row, cols) == [i \in 1..Len(cols) |-> row[cols[i]]]

Froms(pairs) == [i \in 1..Len(pairs) |-> pairs[i][1]]
Tos(pairs) == [i \in 1..Len(pairs) |-> pairs[i][2]]

Tuples(jdf, cols) == {Project(jdf.rows[i], cols) : i \in DOMAIN jdf.rows}

\* Columns of the checked data source a constraint refers to.
ReferencedColumns(k) ==
    IF k.kind = "UniqueKey" THEN Range(k.columns)
    ELSE IF k.kind = "FunctionalDependency"
        THEN Range(k.determinantSet) \cup Range(k.dependentSet)
    ELSE IF k.kind \in {"ForeignKey", "Joinable"} THEN Range(Froms(k.columnPairs))
    ELSE IF k.kind = "Satisfies"
        THEN (IF IsNone(ParseExpr(k.expr)) THEN {}
              ELSE {Get(ParseExpr(k.expr)).column})
    ELSE {k.column}

\* Argument validation at construction (specification 4.2 and 7a).
ValidConstraint(k) ==
    IF k.kind = "UniqueKey" THEN k.columns # <<>>
    ELSE IF k.kind = "FunctionalDependency"
        THEN k.determinantSet # <<>> /\ k.dependentSet # <<>>
    ELSE IF k.kind = "MatchingRegex" THEN k.regex \notin MalformedRegexes
    ELSE IF k.kind = "FormattedAsDate" THEN k.format \notin MalformedDateFormats
    ELSE IF k.kind \in {"ForeignKey", "Joinable"} THEN k.columnPairs # <<>>
    ELSE TRUE

Success(detail) == [status |-> "Success", detail |-> detail, cause |-> ""]
Failure(detail) == [status |-> "Failure", detail |-> detail, cause |-> ""]
Error(cause) == [status |-> "Error", detail |-> <<>>, cause |-> cause]

CountWhere(jdf, P(_)) == Cardinality({i \in DOMAIN jdf.rows : P(jdf.rows[i])})

ZeroIsSuccess(n) == IF n = 0 THEN Ret(Success(<<>>)) ELSE Ret(Failure(<<n>>))

\* UniqueKey(cols): the number of groups of rows whose cols tuple repeats.
NonUniqueGroups(jdf, cols) ==
    {g \in Tuples(jdf, cols) :
        Cardinality({i \in DOMAIN jdf.rows : Project(jdf.rows[i], cols) = g}) > 1}

EvalUniqueKey(k, jdf) == ZeroIsSuccess(Cardinality(NonUniqueGroups(jdf, k.columns)))

EvalNeverNull(k, jdf) ==
    LET IsNull(r) == IsNone(r[k.column]) IN ZeroIsSuccess(CountWhere(jdf, IsNull))

EvalAlwaysNull(k, jdf) ==
    LET NotNull(r) == ~IsNone(r[k.column]) IN ZeroIsSuccess(CountWhere(jdf, NotNull))

EvalConvertibleTo(k, jdf) ==
    IF Castable(TypeOf(jdf, k.column), k.targetType)
    THEN Ret(Success(<<>>))
    ELSE Raise("AnalysisException: cannot cast")

EvalFormattedAsDate(k, jdf) ==
    LET Bad(r) == ~IsNone(r[k.column]) /\ Get(r[k.column]) \notin DateParses(k.format)
    IN ZeroIsSuccess(CountWhere(jdf, Bad))

EvalAnyOf(k, jdf) ==
    LET Bad(r) == IsNone(r[k.column]) \/ Get(r[k.column]) \notin k.allowed
    IN ZeroIsSuccess(CountWhere(jdf, Bad))

EvalMatchingRegex(k, jdf) ==
    LET Bad(r) == ~IsNone(r[k.column]) /\ Get(r[k.column]) \notin RegexMatches(k.regex)
    IN ZeroIsSuccess(CountWhere(jdf, Bad))

EvalFunctionalDependency(k, jdf) ==
    LET deps(g) == {Project(jdf.rows[i], k.dependentSet) :
                      i \in {j \in DOMAIN jdf.rows :
                               Project(jdf.rows[j], k.determinantSet) = g}}
        bad == {g \in Tuples(jdf, k.determinantSet) : Cardinality(deps(g)) > 1}
    IN ZeroIsSuccess(Cardinality(bad))

EvalForeignKey(k, jdf) ==
    LET missing == Tuples(jdf, Froms(k.columnPairs)) \ Tuples(k.ref, Tos(k.columnPairs))
    IN ZeroIsSuccess(Cardinality(missing))

EvalJoinable(k, jdf) ==
    LET base == Tuples(jdf, Froms(k.columnPairs))
        joined == base \cap Tuples(k.ref, Tos(k.columnPairs))
    IN Ret(Success(<<Cardinality(base), Cardinality(joined)>>))

EvalSatisfies(k, jdf) ==
    LET p == ParseExpr(k.expr)
        Bad(r) == ~ExprHolds(Get(p), r[Get(p).column])
    IN IF IsNone(p) THEN Raise("ParseException: malformed predicate")
       ELSE ZeroIsSuccess(CountWhere(jdf, Bad))

\* compile + execute + interpret of one constraint; an evaluation fault is a
\* raised outcome.
Evaluate(k, jdf) ==
    IF ~(ReferencedColumns(k) \subseteq ColumnsOf(jdf))
        THEN Raise("AnalysisException: cannot resolve")
    ELSE IF k.kind = "UniqueKey" THEN EvalUniqueKey(k, jdf)
    ELSE IF k.kind = "NeverNull" THEN EvalNeverNull(k, jdf)
    ELSE IF k.kind = "AlwaysNull" THEN EvalAlwaysNull(k, jdf)
    ELSE IF k.kind = "ConvertibleTo" THEN EvalConvertibleTo(k, jdf)
    ELSE IF k.kind = "FormattedAsDate" THEN EvalFormattedAsDate(k, jdf)
    ELSE IF k.kind = "AnyOf" THEN EvalAnyOf(k, jdf)
    ELSE IF k.kind = "MatchingRegex" THEN EvalMatchingRegex(k, jdf)
    ELSE IF k.kind = "FunctionalDependency" THEN EvalFunctionalDependency(k, jdf)
    ELSE IF k.kind = "ForeignKey" THEN EvalForeignKey(k, jdf)
    ELSE IF k.kind = "Joinable" THEN EvalJoinable(k, jdf)
    ELSE EvalSatisfies(k, jdf)

(***************************************************************************)
(* Engine: Check (modelled from the specification, sections 3, 4.2, 4.3).  *)
(***************************************************************************)
JvmCheck(jdf, displayName, cacheMethod, constraints, id) ==
    [dataFrame |-> jdf, displayName |-> displayName, cacheMethod |-> cacheMethod,
     constraints |-> constraints, id |-> id]

\* Each add method validates its arguments and returns a new Check with the
\* constraint appended; the receiver is a value and is not changed.
JvmAddConstraint(chk, k) ==
    IF ValidConstraint(k)
    THEN Ret([chk EXCEPT !.constraints = Append(@, k)])
    ELSE Raise("IllegalArgumentException")

\* displayName defaults to the rendering of the data source's schema.
JvmName(chk) ==
    IF IsNone(chk.displayName) THEN JdfToString(chk.dataFrame)
    ELSE Get(chk.displayName)

ConstraintResult(k, r) ==
    [constraint |-> k, status |-> r.status, detail |-> r.detail, cause |-> r.cause]

\* Interpretation of one constraint: an evaluation fault becomes an Error
\* result.
TryEvaluate(k, jdf) ==
    LET o == Evaluate(k, jdf)
    IN ConstraintResult(k, IF Returned(o) THEN o.value ELSE Error(o.exc))

\* A fault that is not caught per constraint ends the evaluation.
RECURSIVE EvaluateAll_abortOnFault(_, _)
EvaluateAll_abortOnFault(cs, jdf) ==
    IF cs = <<>> \/ ~Returned(Evaluate(Head(cs), jdf)) THEN <<>>
    ELSE <<TryEvaluate(Head(cs), jdf)>> \o EvaluateAll_abortOnFault(Tail(cs), jdf)

\* Step 2 of run: every constraint, in registration order.
RECURSIVE EvaluateAll(_, _)
EvaluateAll(cs, jdf) ==
    IF cs = <<>> THEN <<>>
    ELSE <<TryEvaluate(Head(cs), jdf)>> \o EvaluateAll(Tail(cs), jdf)

ResultOf(chk, results) ==
    [checkMetadata |->
        [displayName |-> JvmName(chk),
         columnCount |-> Len(chk.dataFrame.schema),
         rowCount |-> Len(chk.dataFrame.rows)],
     constraintResults |-> results]

CacheEvents(chk) ==
    IF IsNone(chk.cacheMethod) THEN <<>>
    ELSE << [ev |-> "cache", level |-> Get(chk.cacheMethod)] >>

QueryEvents(results) ==
    [i \in 1..Len(results) |-> [ev |-> "constraint", constraint |-> results[i].constraint]]

ReportEvents(reporters, result) ==
    [i \in 1..Len(reporters) |->
        [ev |-> "report", reporter |-> reporters[i].reporter, result |-> result]]

\* The data source is cached only after the constraints were queried.
JvmRun_cacheAfterQueries(chk, reporters) ==
    LET results == EvaluateAll(chk.constraints, chk.dataFrame)
        result == ResultOf(chk, results)
    IN [result |-> result,
        trace |-> << [ev |-> "metadata"] >> \o QueryEvents(results)
                    \o CacheEvents(chk) \o ReportEvents(reporters, result)]

\* run(reporters): the VerificationResult and the sequence of data-source and
\* reporter events of the run.
JvmRun(chk, reporters) ==
    LET results == EvaluateAll(chk.constraints, chk.dataFrame)
        result == ResultOf(chk, results)
    IN [result |-> result,
        trace |-> CacheEvents(chk) \o << [ev |-> "metadata"] >>
                    \o QueryEvents(results) \o ReportEvents(reporters, result)]

(***************************************************************************)
(* jvm_conversions and reporters (modelled from their use in core.py).     *)
(***************************************************************************)
iterableToScalaList(xs) == [i \in 1..Len(xs) |-> xs[i]]
iterableToScalaSet(xs) == Range(xs)
tuple2(t) == <<t[1], t[2]>>
simpleDateFormat(fmt) ==
    IF fmt \in MalformedDateFormats THEN Raise("IllegalArgumentException") ELSE Ret(fmt)

\* DataType.fromJson(targetType.json()).
TypeJson(t) ==
    IF t = "IntegerType()" THEN "\"integer\""
    ELSE IF t = "StringType()" THEN "\"string\""
    ELSE "{\"type\":\"array\",\"elementType\":\"integer\"}"
DataTypeFromJson(j) ==
    IF j = "\"integer\"" THEN "IntegerType"
    ELSE IF j = "\"string\"" THEN "StringType"
    ELSE "ArrayType(IntegerType,true)"

getJvmReporter(r) == [reporter |-> r]

\* An exception of the engine reaches Python wrapped by the gateway.
FromJvm(r) == IF Returned(r) THEN r ELSE Raise("Py4JJavaError: " \o r.exc)

(***************************************************************************)
(* pyddq.core.Check.  A Python object is a function from the names of its  *)
(* instance attributes to their values; reading a name that is neither an  *)
(* instance attribute nor a property of the class raises AttributeError.   *)
(***************************************************************************)
\* str(uuid4): the rendering of the function object, one string per process.
StrUuid4 == "<function uuid4 at 0x7f3c>"

Check__init__(dataFrame, displayName, jvmCheck) ==
    ("_dataFrame" :> dataFrame)
    @@ ("_jvm" :> "jvm")
    @@ ("_displayName" :> displayName)
    @@ ("jvmCheck" :>
            IF ~IsNone(jvmCheck) THEN Get(jvmCheck)
            ELSE JvmCheck(dataFrame["_jdf"], None, None, <<>>, StrUuid4))

InstanceAttr(self, attr) ==
    IF attr \in DOMAIN self THEN Ret(self[attr]) ELSE Raise("AttributeError")

Truthy(o) == ~IsNone(o) /\ Get(o) # ""

dataFrame(self) == InstanceAttr(self, "_dataFrame")

name(self) ==
    LET d == InstanceAttr(self, "_displayName")
    IN IF ~Returned(d) THEN d
       ELSE IF Truthy(d.value) THEN Ret(Get(d.value))
       ELSE Ret(PyStr(dataFrame(self).value))

cacheMethod(self) == InstanceAttr(self, "_cacheMethod")

id(self) ==
    LET i == InstanceAttr(self, "_id")
    IN IF ~Returned(i) THEN i
       ELSE IF Truthy(i.value) THEN Ret(Get(i.value))
       ELSE Ret(self["jvmCheck"].id)

Properties == {"dataFrame", "name", "cacheMethod", "id"}

GetAttr(self, attr) ==
    IF attr = "dataFrame" THEN dataFrame(self)
    ELSE IF attr = "name" THEN name(self)
    ELSE IF attr = "cacheMethod" THEN cacheMethod(self)
    ELSE IF attr = "id" THEN id(self)
    ELSE InstanceAttr(self, attr)

\* `return Check(self.dataFrame, self.displayName, jvmCheck)`: the arguments
\* are evaluated left to right after the engine call has returned.
Derived(self, jvmCheck) ==
    LET df == GetAttr(self, "dataFrame")
        dn == GetAttr(self, "displayName")
    IN IF ~Returned(jvmCheck) THEN jvmCheck
       ELSE IF ~Returned(df) THEN df
       ELSE IF ~Returned(dn) THEN dn
       ELSE Ret(Check__init__(df.value, dn.value, Some(jvmCheck.value)))

\* The engine call of each method (the assignment to the local jvmCheck).
\* A slip in marshalling: the first column name is not forwarded.
hasUniqueKeyJvm_dropsColumnName(self, columnName, columnNames) ==
    FromJvm(JvmAddConstraint(self["jvmCheck"],
        UniqueKey(iterableToScalaList(columnNames))))

hasUniqueKeyJvm(self, columnName, columnNames) ==
    FromJvm(JvmAddConstraint(self["jvmCheck"],
        UniqueKey(<<columnName>> \o iterableToScalaList(columnNames))))

\* A slip in marshalling: the dependent list is forwarded twice.
hasFunctionalDependencyJvm_dependentTwice(self, determinantSet, dependentSet) ==
    FromJvm(JvmAddConstraint(self["jvmCheck"],
        FunctionalDependency(iterableToScalaList(dependentSet),
                             iterableToScalaList(dependentSet))))

hasFunctionalDependencyJvm(self, determinantSet, dependentSet) ==
    FromJvm(JvmAddConstraint(self["jvmCheck"],
        FunctionalDependency(iterableToScalaList(determinantSet),
                             iterableToScalaList(dependentSet))))

KeyMaps(keyMap, keyMaps) ==
    <<tuple2(keyMap)>> \o iterableToScalaList([i \in 1..Len(keyMaps) |-> tuple2(keyMaps[i])])

\* hasUniqueKey(self, columnName, *columnNames): argv are the positional
\* arguments of the call; the first is required.
hasUniqueKey(self, argv) ==
    IF argv = <<>> THEN Raise("TypeError")
    ELSE Derived(self, hasUniqueKeyJvm(self, Head(argv), Tail(argv)))

isNeverNull(self, columnName) ==
    Derived(self, FromJvm(JvmAddConstraint(self["jvmCheck"], NeverNull(columnName))))

isAlwaysNull(self, columnName) ==
    Derived(self, FromJvm(JvmAddConstraint(self["jvmCheck"], AlwaysNull(columnName))))

isConvertibleTo(self, columnName, targetType) ==
    LET jvmType == DataTypeFromJson(TypeJson(targetType))
    IN Derived(self, FromJvm(JvmAddConstraint(self["jvmCheck"],
                                              ConvertibleTo(columnName, jvmType))))

isFormattedAsDate(self, columnName, dateFormat) ==
    LET jvmFormat == FromJvm(simpleDateFormat(dateFormat))
    IN IF ~Returned(jvmFormat) THEN jvmFormat
       ELSE Derived(self, FromJvm(JvmAddConstraint(self["jvmCheck"],
                              FormattedAsDate(columnName, jvmFormat.value))))

isAnyOf(self, columnName, allowed) ==
    Derived(self, FromJvm(JvmAddConstraint(self["jvmCheck"],
                              AnyOf(columnName, iterableToScalaSet(allowed)))))

isMatchingRegex(self, columnName, regexp) ==
    Derived(self, FromJvm(JvmAddConstraint(self["jvmCheck"],
                              MatchingRegex(columnName, regexp))))

hasFunctionalDependency(self, determinantSet, dependentSet) ==
    Derived(self, hasFunctionalDependencyJvm(self, determinantSet, dependentSet))

\* hasForeignKey(self, referenceTable, keyMap, *keyMaps)
hasForeignKey(self, referenceTable, argv) ==
    IF argv = <<>> THEN Raise("TypeError")
    ELSE Derived(self, FromJvm(JvmAddConstraint(self["jvmCheck"],
             ForeignKey(referenceTable["_jdf"], KeyMaps(Head(argv), Tail(argv))))))

\* isJoinableWith(self, referenceTable, keyMap, *keyMaps)
isJoinableWith(self, referenceTable, argv) ==
    IF argv = <<>> THEN Raise("TypeError")
    ELSE Derived(self, FromJvm(JvmAddConstraint(self["jvmCheck"],
             Joinable(referenceTable["_jdf"], KeyMaps(Head(argv), Tail(argv))))))

satisfies(self, constraint) ==
    Derived(self, FromJvm(JvmAddConstraint(self["jvmCheck"], Satisfies(constraint))))

\* `if reporters is None`: an empty sequence is not replaced by the default.
RunReporters_onlyNone(reporters) ==
    IF IsNone(reporters) THEN <<"ConsoleReporter">> ELSE Get(reporters)

\* `if not reporters: reporters = [ConsoleReporter()]`
RunReporters(reporters) ==
    IF IsNone(reporters) \/ Get(reporters) = <<>> THEN <<"ConsoleReporter">>
    ELSE Get(reporters)

JvmReporters(reporters) ==
    LET rs == RunReporters(reporters)
    IN iterableToScalaList([i \in 1..Len(rs) |-> getJvmReporter(rs[i])])

run(self, reporters) == JvmRun(self["jvmCheck"], JvmReporters(reporters))

(***************************************************************************)
(* Inputs of the calls.                                                    *)
(***************************************************************************)
SeqsUpTo(S, n) == UNION {[1..k -> S] : k \in 0..n}

DisplayNames == {None, Some("customers")}
ColumnNames == {"_1", "_2"}
UniqueKeyArgs == {<<>>, <<"_1">>, <<"_1", "_2">>}
TargetTypes == {"IntegerType()", "ArrayType(IntegerType())"}
DateFormats == {"yyyy", "yyyy-bb"}
AllowedLists == {<<"1", "2">>, <<"a", "b", "c">>}
Regexes == {"^a", "("}
ColumnLists == {<<>>, <<"_1">>, <<"_2">>}
KeyMapArgs == {<<>>, << <<"_1", "_1">> >>, << <<"_1", "_1">>, <<"_2", "_2">> >>}
Predicates == {"_1 > 0", "_2 = 'a'", "_1 >"}
Reporters == {"R1", "R2"}
ReporterArgs == {None} \cup {Some(rs) : rs \in SeqsUpTo(Reporters, MaxReporters)}

AddOps ==
    {"hasUniqueKey", "isNeverNull", "isAlwaysNull", "isConvertibleTo",
     "isFormattedAsDate", "isAnyOf", "isMatchingRegex", "hasFunctionalDependency",
     "hasForeignKey", "isJoinableWith", "satisfies"}

Allocating == AddOps \cup {"__init__"}

NoCall == [op |-> "none", recv |-> 0, args |-> <<>>, res |-> Ret(0), trace |-> <<>>]

Receivers == 1..Len(heap)

(***************************************************************************)
(* Calls.  A call that returns a new Check allocates it on the heap and    *)
(* the caller gets its address; last records the call and its outcome.     *)
(***************************************************************************)
Invoke(op, recv, args, res, trace) ==
    /\ IF Returned(res) /\ op \in Allocating
       THEN /\ Len(heap) < MaxChecks
            /\ heap' = Append(heap, res.value)
            /\ last' = [op |-> op, recv |-> recv, args |-> args,
                        res |-> Ret(Len(heap) + 1), trace |-> trace]
       ELSE /\ heap' = heap
            /\ last' = [op |-> op, recv |-> recv, args |-> args,
                        res |-> res, trace |-> trace]
    /\ fresh' = IF op = "__init__" /\ IsNone(args.jvmCheck)
                THEN fresh \cup {Len(heap) + 1} ELSE fresh

\* Check(dataFrame, displayName=None, jvmCheck=None); an engine handle, when
\* given, is the handle of a Check the caller already holds.
Call__init__ ==
    \E df \in CheckedFrames, dn \in DisplayNames,
       h \in {None} \cup {Some(heap[i]["jvmCheck"]) : i \in Receivers} :
        Invoke("__init__", 0,
               [dataFrame |-> df, displayName |-> dn, jvmCheck |-> h],
               Ret(Check__init__(df, dn, h)), <<>>)

Call_hasUniqueKey ==
    \E c \in Receivers, argv \in UniqueKeyArgs :
        Invoke("hasUniqueKey", c, [argv |-> argv], hasUniqueKey(heap[c], argv), <<>>)

Call_isNeverNull ==
    \E c \in Receivers, col \in ColumnNames :
        Invoke("isNeverNull", c, [columnName |-> col], isNeverNull(heap[c], col), <<>>)

Call_isAlwaysNull ==
    \E c \in Receivers, col \in ColumnNames :
        Invoke("isAlwaysNull", c, [columnName |-> col], isAlwaysNull(heap[c], col), <<>>)

Call_isConvertibleTo ==
    \E c \in Receivers, col \in ColumnNames, t \in TargetTypes :
        Invoke("isConvertibleTo", c, [columnName |-> col, targetType |-> t],
               isConvertibleTo(heap[c], col, t), <<>>)

Call_isFormattedAsDate ==
    \E c \in Receivers, col \in ColumnNames, f \in DateFormats :
        Invoke("isFormattedAsDate", c, [columnName |-> col, dateFormat |-> f],
               isFormattedAsDate(heap[c], col, f), <<>>)

Call_isAnyOf ==
    \E c \in Receivers, col \in ColumnNames, a \in AllowedLists :
        Invoke("isAnyOf", c, [columnName |-> col, allowed |-> a],
               isAnyOf(heap[c], col, a), <<>>)

Call_isMatchingRegex ==
    \E c \in Receivers, col \in ColumnNames, re \in Regexes :
        Invoke("isMatchingRegex", c, [columnName |-> col, regexp |-> re],
               isMatchingRegex(heap[c], col, re), <<>>)

Call_hasFunctionalDependency ==
    \E c \in Receivers, det \in ColumnLists, dep \in ColumnLists :
        Invoke("hasFunctionalDependency", c,
               [determinantSet |-> det, dependentSet |-> dep],
               hasFunctionalDependency(heap[c], det, dep), <<>>)

Call_hasForeignKey ==
    \E c \in Receivers, ref \in DataFrames, argv \in KeyMapArgs :
        Invoke("hasForeignKey", c, [referenceTable |-> ref, argv |-> argv],
               hasForeignKey(heap[c], ref, argv), <<>>)

Call_isJoinableWith ==
    \E c \in Receivers, ref \in DataFrames, argv \in KeyMapArgs :
        Invoke("isJoinableWith", c, [referenceTable |-> ref, argv |-> argv],
               isJoinableWith(heap[c], ref, argv), <<>>)

Call_satisfies ==
    \E c \in Receivers, e \in Predicates :
        Invoke("satisfies", c, [constraint |-> e], satisfies(heap[c], e), <<>>)

Call_run ==
    \E c \in Receivers, rs \in ReporterArgs :
        LET r == run(heap[c], rs)
        IN Invoke("run", c, [reporters |-> rs], Ret(r.result), r.trace)

\* Reads of the class's properties: c.dataFrame, c.name, c.cacheMethod, c.id.
Read_property ==
    \E c \in Receivers, attr \in Properties :
        Invoke("getattr", c, [attr |-> attr], GetAttr(heap[c], attr), <<>>)

Init ==
    /\ heap = <<>>
    /\ fresh = {}
    /\ last = NoCall

Next ==
    \/ Call__init__
    \/ Call_hasUniqueKey
    \/ Call_isNeverNull
    \/ Call_isAlwaysNull
    \/ Call_isConvertibleTo
    \/ Call_isFormattedAsDate
    \/ Call_isAnyOf
    \/ Call_isMatchingRegex
    \/ Call_hasFunctionalDependency
    \/ Call_hasForeignKey
    \/ Call_isJoinableWith
    \/ Call_satisfies
    \/ Call_run
    \/ Read_property

Spec == Init /\ [][Next]_vars

(***************************************************************************)
(* Properties of the builder.                                              *)
(***************************************************************************)
\* The arguments of a constraint-adding call are valid: no empty column
\* list and no malformed pattern.
ArgsValid(l) ==
    IF l.op \in {"hasUniqueKey", "hasForeignKey", "isJoinableWith"}
        THEN l.args.argv # <<>>
    ELSE IF l.op = "hasFunctionalDependency"
        THEN l.args.determinantSet # <<>> /\ l.args.dependentSet # <<>>
    ELSE IF l.op = "isMatchingRegex" THEN l.args.regexp \notin MalformedRegexes
    ELSE IF l.op = "isFormattedAsDate" THEN l.args.dateFormat \notin MalformedDateFormats
    ELSE TRUE

\* The constraint kind each method adds.
KindOf(op) ==
    IF op = "hasUniqueKey" THEN "UniqueKey"
    ELSE IF op = "isNeverNull" THEN "NeverNull"
    ELSE IF op = "isAlwaysNull" THEN "AlwaysNull"
    ELSE IF op = "isConvertibleTo" THEN "ConvertibleTo"
    ELSE IF op = "isFormattedAsDate" THEN "FormattedAsDate"
    ELSE IF op = "isAnyOf" THEN "AnyOf"
    ELSE IF op = "isMatchingRegex" THEN "MatchingRegex"
    ELSE IF op = "hasFunctionalDependency" THEN "FunctionalDependency"
    ELSE IF op = "hasForeignKey" THEN "ForeignKey"
    ELSE IF op = "isJoinableWith" THEN "Joinable"
    ELSE "Satisfies"

\* Errors of a call that is refused for its arguments: the arity check of
\* the call itself, or the engine's argument validation seen through the
\* gateway.
ConstructionErrors == {"TypeError", "Py4JJavaError: IllegalArgumentException"}

ConstraintsOf(obj) == obj["jvmCheck"].constraints

ResultsOf(obj) == run(obj, None).result.constraintResults

\* C1: every constraint-adding call (with valid arguments) on a Check c
\* returns a Check distinct from c and leaves c as it was: its constraint
\* sequence, data source, display name and id, hence what a later run of c
\* reports.
C1_AddReturnsDistinctCheckReceiverUnchanged ==
    [][ (last'.op \in AddOps /\ ArgsValid(last')) =>
            /\ Returned(last'.res)
            /\ last'.res.value # last'.recv
            /\ heap'[last'.recv] = heap[last'.recv]
            /\ ResultsOf(heap'[last'.recv]) = ResultsOf(heap[last'.recv]) ]_vars

\* C2: run reports one result per constraint added, in the order added: a
\* Check constructed without constraints reports none, and the Check a
\* constraint-adding call builds from c reports the results of c followed by
\* the result of the constraint just added.
C2_RunReportsConstraintsInRegistrationOrder ==
    [][ /\ (last'.op = "run" /\ last'.recv \in fresh) =>
                last'.res.value.constraintResults = <<>>
        /\ (last'.op \in AddOps /\ ArgsValid(last')) =>
                /\ Returned(last'.res)
                /\ LET before == ResultsOf(heap[last'.recv])
                       after == ResultsOf(heap'[last'.res.value])
                   IN /\ Len(after) = Len(before) + 1
                      /\ SubSeq(after, 1, Len(before)) = before
                      /\ after[Len(after)].constraint.kind = KindOf(last'.op) ]_vars

\* C3: every constraint-adding call on c completes and yields a Check d with
\* the dataSource, displayName and cacheMethod of c and the constraints of c
\* followed by exactly the one new constraint.
C3_AddYieldsCheckExtendedByOne ==
    (last.op \in AddOps /\ ArgsValid(last)) =>
        /\ Returned(last.res)
        /\ LET c == heap[last.recv]
               d == heap[last.res.value]
           IN /\ d["_dataFrame"] = c["_dataFrame"]
              /\ d["_displayName"] = c["_displayName"]
              /\ d["jvmCheck"].dataFrame = c["jvmCheck"].dataFrame
              /\ d["jvmCheck"].cacheMethod = c["jvmCheck"].cacheMethod
              /\ Len(ConstraintsOf(d)) = Len(ConstraintsOf(c)) + 1
              /\ SubSeq(ConstraintsOf(d), 1, Len(ConstraintsOf(c))) = ConstraintsOf(c)
              /\ ConstraintsOf(d)[Len(ConstraintsOf(d))].kind = KindOf(last.op)

\* C6: Checks constructed without an engine handle have pairwise different
\* ids, the id of a Check is readable, and it never changes.
C6_FreshIdsDistinctReadableStable ==
    [][ /\ \A i, j \in fresh' :
                i # j => heap'[i]["jvmCheck"].id # heap'[j]["jvmCheck"].id
        /\ (last'.op = "getattr" /\ last'.args.attr = "id") => Returned(last'.res)
        /\ \A i \in DOMAIN heap : heap'[i]["jvmCheck"].id = heap[i]["jvmCheck"].id ]_vars

\* The header line of the report of a run.
Header(result) == "**Checking " \o result.checkMetadata.displayName \o "**"

\* C7: the report header of a Check names the displayName given to the
\* constructor when one was given, and otherwise the rendering of the
\* schema of its data source.
C7_HeaderShowsGivenDisplayName ==
    (last.op = "run" /\ last.recv \in fresh) =>
        LET c == heap[last.recv]
        IN Header(last.res.value) =
              IF IsNone(c["_displayName"])
              THEN "**Checking " \o JdfToString(c["_dataFrame"]["_jdf"]) \o "**"
              ELSE "**Checking " \o Get(c["_displayName"]) \o "**"

\* C8: a constraint-adding call with invalid arguments fails at the call
\* with a construction error: no Check is returned or created, the receiver
\* and every other Check are unchanged, and no query has run.
C8_InvalidArgumentsFailAtTheCall ==
    [][ (last'.op \in AddOps /\ ~ArgsValid(last')) =>
            /\ ~Returned(last'.res)
            /\ last'.res.exc \in ConstructionErrors
            /\ heap' = heap
            /\ last'.trace = <<>> ]_vars

C8_Witness ==
    /\ last.op = "hasFunctionalDependency"
    /\ last.args.determinantSet = <<>>
    /\ last.args.dependentSet # <<>>
    /\ ~Returned(last.res)
    /\ last.res.exc \in ConstructionErrors

(***************************************************************************)
(* run on Checks that carry constraints.  The constructor takes the engine *)
(* handle of a Check built by the engine's own builder: a cache directive  *)
(* and a sequence of constraints, some of which fault when evaluated (an   *)
(* incompatible cast, a malformed predicate, an unresolvable column).      *)
(***************************************************************************)
CacheMethods == {None, Some("MEMORY_ONLY")}

RunConstraints ==
    {UniqueKey(<<"_1">>), NeverNull("_2"), Satisfies("_1 > 1"),
     ConvertibleTo("_1", "IntegerType"),
     ConvertibleTo("_1", "ArrayType(IntegerType,true)"),
     Satisfies("_1 >"), Satisfies("_9 > 0")}

RECURSIVE JvmBuild(_, _)
JvmBuild(chk, cs) ==
    IF cs = <<>> THEN chk
    ELSE JvmBuild(JvmAddConstraint(chk, Head(cs)).value, Tail(cs))

EngineChecks ==
    {JvmBuild(JvmCheck(JdfTest, None, cm, <<>>, "engine-id"), cs) :
        cm \in CacheMethods, cs \in SeqsUpTo(RunConstraints, MaxConstraints)}

InitRun ==
    \E h \in EngineChecks, dn \in DisplayNames :
        /\ heap = << Check__init__(PyDataFrame(h.dataFrame), dn, Some(h)) >>
        /\ fresh = {}
        /\ last = NoCall

NextRun == Call_run

SpecRun == InitRun /\ [][NextRun]_vars

EventsOf(trace, ev) == SelectSeq(trace, LAMBDA e : e.ev = ev)

Faults(k, jdf) == ~Returned(Evaluate(k, jdf))

\* C4: when the evaluation of a constraint faults during run, that
\* constraint gets an Error result and the run goes on: the run returns, and
\* every constraint registered after the faulting one is evaluated and
\* reported with its own verdict, wherever the faulting one stands.
C4_FaultBecomesErrorAndRunContinues ==
    last.op = "run" =>
        LET chk == heap[last.recv]["jvmCheck"]
            cs == chk.constraints
            rs == last.res.value.constraintResults
            qs == EventsOf(last.trace, "constraint")
        IN /\ Returned(last.res)
           /\ \A i \in DOMAIN cs :
                Faults(cs[i], chk.dataFrame) =>
                    /\ i \in DOMAIN rs
                    /\ rs[i].constraint = cs[i]
                    /\ rs[i].status = "Error"
                    /\ \A j \in (i + 1)..Len(cs) :
                         /\ j \in DOMAIN rs /\ j \in DOMAIN qs
                         /\ rs[j].constraint = cs[j]
                         /\ qs[j].constraint = cs[j]
                         /\ ~Faults(cs[j], chk.dataFrame) =>
                                rs[j].status = Evaluate(cs[j], chk.dataFrame).value.status

C4_Witness ==
    /\ last.op = "run"
    /\ LET chk == heap[last.recv]["jvmCheck"]
           rs == last.res.value.constraintResults
       IN /\ Len(chk.constraints) >= 2
          /\ Faults(chk.constraints[1], chk.dataFrame)
          /\ rs[1].status = "Error"
          /\ rs[2].status = "Failure"

\* C5: run hands the result to every supplied reporter once per occurrence
\* and in the order supplied, after all constraints have been evaluated;
\* with no reporters (none given, or an empty sequence) exactly one console
\* reporter is invoked.
C5_ReportersInvokedInSuppliedOrder ==
    last.op = "run" =>
        LET supplied == last.args.reporters
            expected == IF IsNone(supplied) \/ Get(supplied) = <<>>
                        THEN <<"ConsoleReporter">> ELSE Get(supplied)
            reports == EventsOf(last.trace, "report")
            n == Len(ConstraintsOf(heap[last.recv]))
        IN /\ [i \in 1..Len(reports) |-> reports[i].reporter] = expected
           /\ \A i \in DOMAIN reports : reports[i].result = last.res.value
           /\ Len(EventsOf(last.trace, "constraint")) = n
           /\ \A i, j \in DOMAIN last.trace :
                (last.trace[i].ev = "report" /\ last.trace[j].ev = "constraint") => j < i

C5_Witness ==
    /\ last.op = "run"
    /\ last.args.reporters = Some(<<"R1", "R1">>)
    /\ Len(ConstraintsOf(heap[last.recv])) >= 1
    /\ Len(EventsOf(last.trace, "report")) = 2

\* C9: when the cacheMethod of a Check is set, a run caches the data source
\* exactly once, before the first constraint query, and the constraints are
\* then evaluated one after another in registration order.
C9_CacheOnceBeforeFirstQuery ==
    (last.op = "run" /\ ~IsNone(heap[last.recv]["jvmCheck"].cacheMethod)) =>
        LET cs == ConstraintsOf(heap[last.recv])
            qs == EventsOf(last.trace, "constraint")
        IN /\ Len(EventsOf(last.trace, "cache")) = 1
           /\ \A i, j \in DOMAIN last.trace :
                (last.trace[i].ev = "cache" /\ last.trace[j].ev = "constraint") => i < j
           /\ [i \in 1..Len(qs) |-> qs[i].constraint] = cs

C9_Witness ==
    /\ last.op = "run"
    /\ ~IsNone(heap[last.recv]["jvmCheck"].cacheMethod)
    /\ Len(ConstraintsOf(heap[last.recv])) >= 2
    /\ last.trace[1].ev = "cache"
    /\ last.trace[3].ev = "constraint"

(***************************************************************************)
(* UniqueKey over bounded data sets.                                       *)
(***************************************************************************)
RowValues ==
    {Row(a, b) : a \in {None, Some("1"), Some("3")}, b \in {None, Some("a"), Some("c")}}

KeyArgs == {<<"_1">>, <<"_2">>, <<"_1", "_2">>, <<"_2", "_1">>}

InitKey ==
    \E rows \in SeqsUpTo(RowValues, MaxRows) :
        /\ heap = << Check__init__(PyDataFrame([schema |-> JdfTest.schema, rows |-> rows]),
                                   None, None) >>
        /\ fresh = {1}
        /\ last = NoCall

\* The constraint that hasUniqueKey(columnName, *columnNames) registers with
\* the engine, evaluated against the data source of the Check.
Eval_hasUniqueKey ==
    \E argv \in KeyArgs :
        LET h == hasUniqueKeyJvm(heap[1], Head(argv), Tail(argv))
        IN /\ Returned(h)
           /\ last' = [op |-> "UniqueKey", recv |-> 1, args |-> [argv |-> argv],
                       res |-> Ret(TryEvaluate(h.value.constraints[Len(h.value.constraints)],
                                               h.value.dataFrame)),
                       trace |-> <<>>]
           /\ UNCHANGED <<heap, fresh>>

NextKey == Eval_hasUniqueKey

SpecKey == InitKey /\ [][NextKey]_vars

====
